---- MODULE Spec2Model ----
(***************************************************************************)
(* Model of scripts/segmentation_api.py and scripts/test_segmentation.py:  *)
(* the retry loop of query_segmentation around one HTTP POST, the image    *)
(* normalizer it calls first, and the two callers (main and the test       *)
(* script) plus a direct call with arbitrary arguments.                    *)
(*                                                                         *)
(* Everything the loop does to the outside world is recorded, in order, in *)
(* the history variable events: one "post" entry per requests.post and one *)
(* "sleep" entry per completed time.sleep.                                 *)
(***************************************************************************)
EXTENDS Integers, Sequences, FiniteSets, TLC

VARIABLES
    caller,         \* who runs: "main", "test" (test_segmentation.py) or "direct"
    HF_TOKEN,       \* os.getenv('HF_TOKEN'): "None" when the variable is missing
    jsonErrIsReqEx, \* build: requests >= 2.27 raises a RequestException from json()
    image,          \* the file at image_path: "missing", "corrupt" or "ok"
    max_retries,    \* argument of query_segmentation
    retry_delay,    \* argument of query_segmentation
    pc,             \* "start", "qs_entry", "loop", "qs_done", "exit"
    attempt,        \* loop variable of  for attempt in range(1, max_retries + 1)
    optimize_calls, \* number of calls of optimize_image
    image_bytes,    \* local of query_segmentation: the payload
    events,         \* history of HTTP posts and sleeps of the call
    result,         \* how query_segmentation ended
    saved,          \* files written by save_results (their contents)
    stdout,         \* final message printed by the caller
    width,          \* optimize_image: width of the opened image
    height,         \* optimize_image: height of the opened image
    max_size,       \* optimize_image: its max_size argument
    optimized,      \* optimize_image: what the size computation produced
    fs,             \* save_results: the file system, [dirs, files]
    save_args,      \* save_results: its arguments and the file system it found
    save_ret        \* save_results: the path it returned, or the error it raised

\* the variables of the size computation of optimize_image
imgvars == << width, height, max_size, optimized >>

\* the variables of save_results taken alone
savevars == << fs, save_args, save_ret >>

vars == << caller, HF_TOKEN, jsonErrIsReqEx, image, max_retries, retry_delay, pc,
           attempt, optimize_calls, image_bytes, events, result, saved, stdout,
           imgvars, savevars >>

-----------------------------------------------------------------------------
(* Bounds of the model and constants of the program *)

\* direct calls draw max_retries from 0..MaxRetriesBound
MaxRetriesBound == 3

\* def query_segmentation(image_path, max_retries: int = 3, retry_delay: int = 5)
DEFAULT_MAX_RETRIES == 3
DEFAULT_RETRY_DELAY == 5

\* time.sleep(estimated_time + 2)
WARMUP_BUFFER == 2

\* MAX_IMAGE_SIZE = 1024
MAX_IMAGE_SIZE == 1024

\* retry_delay values tried by direct calls (seconds, non-negative)
RetryDelays == {1, DEFAULT_RETRY_DELAY}

\* image sides tried by the size computation: within DimSpread pixels of the
\* default bound, so that images below, at and above it occur
DimSpread == 100
Dims == (MAX_IMAGE_SIZE - DimSpread)..(MAX_IMAGE_SIZE + DimSpread)

\* max_size arguments tried by the size computation
MaxSizes == {1000, MAX_IMAGE_SIZE}

\* save_results is tried on lists of up to MaxSegments segments
MaxSegments == 2

\* numeric estimated_time values the server may send in a 503 body
EstimatedTimes == {-5, -2, 3}

-----------------------------------------------------------------------------
(* The server's answers *)

\* A response body.  shape: "notjson" (response.json() raises), "array" (JSON
\* that is not an object: a list, null, a number) or "object".  For an object,
\* etKind says what its estimated_time field holds: "absent", "number" (et),
\* "string" (any non-numeric value) or "huge" (a number time.sleep rejects:
\* above the platform's time range, inf, nan).  id tells bodies apart.
Body(shape, etKind, et, id) == [shape |-> shape, etKind |-> etKind, et |-> et, id |-> id]

NoBody == Body("notjson", "absent", 0, 0)

SuccessBodies == { Body("array", "absent", 0, 1), Body("array", "absent", 0, 2) }

WarmupBodies ==
    { Body("notjson", "absent", 0, 0), Body("array", "absent", 0, 0),
      Body("object", "absent", 0, 0), Body("object", "string", 0, 0),
      Body("object", "huge", 0, 0) }
    \cup { Body("object", "number", t, 0) : t \in EstimatedTimes }

OtherStatuses == {404, 500}

Outcome(kind, status, body) == [kind |-> kind, status |-> status, body |-> body, exc |-> ""]

NoOutcome == Outcome("none", 0, NoBody)
TimeoutOutcome == Outcome("timeout", 0, NoBody)

\* requests.post raised the exception e, a RequestException that is not a Timeout
ConnErrors == {"ConnectionError", "SSLError"}
ConnErrOutcome(e) == [Outcome("connerr", 0, NoBody) EXCEPT !.exc = e]

-----------------------------------------------------------------------------
(* Values query_segmentation ends with *)

\* raise Exception(f"Échec après {max_retries} tentatives"): the message of the
\* "attempts exhausted" error and the values it is built from
EXHAUSTED == "Echec apres max_retries tentatives"
ExcArgs(e) ==
    IF e = EXHAUSTED THEN << [name |-> "max_retries", val |-> max_retries] >> ELSE << >>

NoResult == [kind |-> "none", exc |-> "", value |-> NoBody, args |-> << >>]
Returned(v) == [kind |-> "return", exc |-> "", value |-> v, args |-> << >>]
Raised(e) == [kind |-> "raise", exc |-> e, value |-> NoBody, args |-> ExcArgs(e)]

\* Python's None as a returned value (the function falls off its end)
NoneValue == Body("none", "absent", 0, 0)

\* HEADERS = {"Authorization": f"Bearer {HF_TOKEN}"}
HEADERS == [Authorization |-> <<"Bearer", HF_TOKEN>>]

\* a post whose payload is encoded again on every retry
PostEventReencoded(o) ==
    [type |-> "post", outcome |-> o,
     payload |-> IF attempt = 1 THEN image_bytes ELSE "jpeg_reencoded",
     headers |-> HEADERS, secs |-> 0]
\* requests.post(API_URL, headers=HEADERS, data=image_bytes, timeout=60)
PostEvent(o) == [type |-> "post", outcome |-> o, payload |-> image_bytes,
                 headers |-> HEADERS, secs |-> 0]
SleepEvent(n) == [type |-> "sleep", outcome |-> NoOutcome, payload |-> "",
                  headers |-> HEADERS, secs |-> n]

-----------------------------------------------------------------------------
(* Pure parts of query_segmentation *)

\* for attempt in range(1, max_retries + 1): is there an iteration number a?
HasNextOffByOne(a, m) == a <= m + 1
HasNext(a, m) == a <= m

\* if attempt < max_retries  (the "other status", timeout and connection branches)
RetriesLeftInclusive(a, m) == a <= m
RetriesLeft(a, m) == a < m

\* the if/elif chain on response.status_code
BranchNoAuth(status) ==
    CASE status = 200 -> "ok"
      [] status = 503 -> "warmup"
      [] status = 429 -> "ratelimit"
      [] OTHER -> "other"
Branch(status) ==
    CASE status = 200 -> "ok"
      [] status = 503 -> "warmup"
      [] status = 429 -> "ratelimit"
      [] status = 401 -> "auth"
      [] OTHER -> "other"

\* response.json(): raises when the body is not JSON
JsonOk(body) == body.shape # "notjson"

\* time.sleep(secs) raises ValueError for a negative length
SleepAccepts(secs) == secs >= 0

\* The 503 branch:
\*     try:
\*         error_data = response.json()
\*         estimated_time = error_data.get('estimated_time', retry_delay)
\*         time.sleep(estimated_time + 2)
\*     except:
\*         time.sleep(retry_delay)
\* The seconds slept: json() raises on a non-JSON body, .get raises on JSON that
\* is not an object, + raises on a non-numeric value, time.sleep raises on a
\* negative or out-of-range length (before sleeping); each lands in the bare
\* except.
WarmupSleep(body, delay) ==
    IF JsonOk(body) /\ body.shape = "object"
    THEN CASE body.etKind = "absent" -> delay + WARMUP_BUFFER
           [] body.etKind = "number" ->
                IF SleepAccepts(body.et + WARMUP_BUFFER)
                THEN body.et + WARMUP_BUFFER
                ELSE delay
           [] OTHER -> delay
    ELSE delay

-----------------------------------------------------------------------------
(* optimize_image: the size computation, in IEEE 754 double arithmetic *)

\* the number of significand bits of a Python float (a C double)
MANT_BITS == 53

\* A positive float is [bits, exp]: bits is the MANT_BITS-bit significand, most
\* significant bit first (it is 1), and the value is bits * 2^exp.

\* the binary digits of n >= 0, most significant first (<< >> for 0)
RECURSIVE BitsOf(_)
BitsOf(n) == IF n = 0 THEN << >> ELSE Append(BitsOf(n \div 2), n % 2)

\* the number whose binary digits are bits
RECURSIVE ToInt(_)
ToInt(bits) ==
    IF bits = << >> THEN 0
    ELSE 2 * ToInt(SubSeq(bits, 1, Len(bits) - 1)) + bits[Len(bits)]

\* bits + 1, same length; all ones wrap to all zeros (the caller renormalises)
RECURSIVE Increment(_)
Increment(bits) ==
    IF bits = << >> THEN << >>
    ELSE IF bits[Len(bits)] = 0
         THEN Append(SubSeq(bits, 1, Len(bits) - 1), 1)
         ELSE Append(Increment(SubSeq(bits, 1, Len(bits) - 1)), 0)

AllOnes(bits) == \A i \in DOMAIN bits : bits[i] = 1

\* round to nearest, ties to even: kept significand bits, exponent of its last
\* bit, and how the discarded part compares with half a unit in the last place
\* ("below", "half", "above")
RoundNearestEven(bits, exp, rest) ==
    LET up == rest = "above" \/ (rest = "half" /\ bits[Len(bits)] = 1)
    IN  IF ~up THEN [bits |-> bits, exp |-> exp]
        ELSE IF AllOnes(bits)
             THEN [bits |-> <<1>> \o [i \in 1..(Len(bits) - 1) |-> 0], exp |-> exp + 1]
             ELSE [bits |-> Increment(bits), exp |-> exp]

\* the quotient digits of rem / d after e fraction digits, up to MANT_BITS
\* significant ones, with the remainder left over
RECURSIVE DivBits(_, _, _, _)
DivBits(rem, d, bits, e) ==
    IF Len(bits) = MANT_BITS THEN [bits |-> bits, exp |-> -e, rem |-> rem]
    ELSE LET b == IF 2 * rem >= d THEN 1 ELSE 0
         IN  DivBits(2 * rem - b * d, d,
                     IF bits = << >> /\ b = 0 THEN << >> ELSE Append(bits, b), e + 1)

\* the float n / d for integers 0 < n < d  (ratio = max_size / max(width, height))
FloatDiv(n, d) ==
    LET q == DivBits(n, d, << >>, 0)
        rest == IF 2 * q.rem > d THEN "above"
                ELSE IF 2 * q.rem = d /\ q.rem > 0 THEN "half" ELSE "below"
    IN  RoundNearestEven(q.bits, q.exp, rest)

\* the binary digits of bits * w + carry for an integer w
RECURSIVE MulBits(_, _, _)
MulBits(bits, w, carry) ==
    IF bits = << >> THEN BitsOf(carry)
    ELSE LET t == bits[Len(bits)] * w + carry
         IN  IF t % 2 = 0
             THEN Append(MulBits(SubSeq(bits, 1, Len(bits) - 1), w, t \div 2), 0)
             ELSE Append(MulBits(SubSeq(bits, 1, Len(bits) - 1), w, t \div 2), 1)

\* the float w * f for an integer w >= 1  (width * ratio): the exact product
\* rounded to MANT_BITS bits
FloatMulInt(w, f) ==
    LET p == MulBits(f.bits, w, 0)
        d == Len(p) - MANT_BITS
        dropped == SubSeq(p, MANT_BITS + 1, Len(p))
        rest == IF d = 0 \/ dropped[1] = 0 THEN "below"
                ELSE IF \E i \in 2..d : dropped[i] = 1 THEN "above" ELSE "half"
    IN  RoundNearestEven(SubSeq(p, 1, MANT_BITS), f.exp + d, rest)

\* int(f) for a float below 2^MANT_BITS: the digits before the binary point
FloatToInt(f) ==
    IF MANT_BITS + f.exp <= 0 THEN 0 ELSE ToInt(SubSeq(f.bits, 1, MANT_BITS + f.exp))

Max(a, b) == IF a >= b THEN a ELSE b
Min(a, b) == IF a <= b THEN a ELSE b

\* new_size = (int(width * ratio), int(height * ratio)) with
\* ratio = max_size / max(width, height)
ScaledSize(w, h, maxsize) ==
    LET ratio == FloatDiv(maxsize, Max(w, h))
    IN  << FloatToInt(FloatMulInt(w, ratio)), FloatToInt(FloatMulInt(h, ratio)) >>

\* The size of the image optimize_image encodes: unchanged when the longer side
\* is within max_size, else img.resize(new_size), which raises (and
\* optimize_image with it) when a side of new_size is 0.
OptimizedSize(w, h, maxsize) ==
    IF Max(w, h) > maxsize
    THEN LET ns == ScaledSize(w, h, maxsize)
         IN  IF ns[1] < 1 \/ ns[2] < 1
             THEN [done |-> TRUE, ok |-> FALSE, size |-> ns, resized |-> TRUE]
             ELSE [done |-> TRUE, ok |-> TRUE, size |-> ns, resized |-> TRUE]
    ELSE [done |-> TRUE, ok |-> TRUE, size |-> << w, h >>, resized |-> FALSE]

-----------------------------------------------------------------------------
(* save_results: json.dump(result, f, indent=2, ensure_ascii=False) and the   *)
(* parse that reads the file back                                           *)

\* Text is a sequence of characters; the characters that matter are named.
QUOTE == "quote"
BACKSLASH == "backslash"
LF == "lf"
SPACE == "space"

\* A JSON value, as response.json() builds it: << "null" >> (None),
\* << "num", n, frac >> (the integer n >= 0 when frac is empty, else a float
\* written n.frac), << "str", chars >>, << "list", items >>,
\* << "dict", << <<key chars, value>>, ... >> >> with distinct keys, in order.
Null == << "null" >>
Num(n, frac) == << "num", n, frac >>
Str(chars) == << "str", chars >>
List(items) == << "list", items >>
Dict(pairs) == << "dict", pairs >>

DigitChars == << "0", "1", "2", "3", "4", "5", "6", "7", "8", "9" >>

\* str(n) for an integer n >= 0
RECURSIVE IntChars(_)
IntChars(n) ==
    IF n < 10 THEN << DigitChars[n + 1] >>
    ELSE Append(IntChars(n \div 10), DigitChars[(n % 10) + 1])

\* the concatenation of a sequence of texts
RECURSIVE Concat(_)
Concat(texts) == IF texts = << >> THEN << >> ELSE Head(texts) \o Concat(Tail(texts))

\* ensure_ascii=False: only the quote, the backslash and control characters
\* are escaped; every other character is written as it is
EscapeNothing(c) == << c >>
EscapeChar(c) ==
    CASE c = QUOTE -> << BACKSLASH, QUOTE >>
      [] c = BACKSLASH -> << BACKSLASH, BACKSLASH >>
      [] c = LF -> << BACKSLASH, "n" >>
      [] OTHER -> << c >>

DumpStr(chars) ==
    << QUOTE >> \o Concat([i \in DOMAIN chars |-> EscapeChar(chars[i])]) \o << QUOTE >>

\* indent=2: a newline and two spaces per nesting level
NewlineIndent(lvl) == << LF >> \o [i \in 1..(2 * lvl) |-> SPACE]

\* the text json.dump writes for v at nesting level lvl
RECURSIVE Dump(_, _)
Dump(v, lvl) ==
    CASE v[1] = "null" -> << "n", "u", "l", "l" >>
      [] v[1] = "num" ->
            IF v[3] = << >> THEN IntChars(v[2])
            ELSE IntChars(v[2]) \o << "." >> \o [i \in DOMAIN v[3] |-> DigitChars[v[3][i] + 1]]
      [] v[1] = "str" -> DumpStr(v[2])
      [] v[1] = "list" ->
            IF v[2] = << >> THEN << "[", "]" >>
            ELSE << "[" >>
                 \o Concat([i \in DOMAIN v[2] |->
                        (IF i = 1 THEN << >> ELSE << "," >>)
                        \o NewlineIndent(lvl + 1) \o Dump(v[2][i], lvl + 1)])
                 \o NewlineIndent(lvl) \o << "]" >>
      [] v[1] = "dict" ->
            IF v[2] = << >> THEN << "{", "}" >>
            ELSE << "{" >>
                 \o Concat([i \in DOMAIN v[2] |->
                        (IF i = 1 THEN << >> ELSE << "," >>)
                        \o NewlineIndent(lvl + 1) \o DumpStr(v[2][i][1])
                        \o << ":", SPACE >> \o Dump(v[2][i][2], lvl + 1)])
                 \o NewlineIndent(lvl) \o << "}" >>

\* json.load: the parser.  Each step returns [ok, val, next]: whether the text
\* parses from position i, the value, and the position after it.
ParseFail == [ok |-> FALSE, val |-> Null, next |-> 0]
Parsed(v, n) == [ok |-> TRUE, val |-> v, next |-> n]

At(txt, i) == IF i \in DOMAIN txt THEN txt[i] ELSE "eof"

RECURSIVE SkipWs(_, _)
SkipWs(txt, i) == IF At(txt, i) \in {SPACE, LF} THEN SkipWs(txt, i + 1) ELSE i

IsDigit(c) == \E d \in DOMAIN DigitChars : DigitChars[d] = c
DigitVal(c) == (CHOOSE d \in DOMAIN DigitChars : DigitChars[d] = c) - 1

\* the digits from position i on: [n, digits, next]
RECURSIVE ParseDigits(_, _, _, _)
ParseDigits(txt, i, n, digits) ==
    IF IsDigit(At(txt, i))
    THEN ParseDigits(txt, i + 1, 10 * n + DigitVal(txt[i]), Append(digits, DigitVal(txt[i])))
    ELSE [n |-> n, digits |-> digits, next |-> i]

ParseNumber(txt, i) ==
    LET ip == ParseDigits(txt, i, 0, << >>)
    IN  IF At(txt, ip.next) = "."
        THEN LET fp == ParseDigits(txt, ip.next + 1, 0, << >>)
             IN  IF fp.digits = << >> THEN ParseFail
                 ELSE Parsed(Num(ip.n, fp.digits), fp.next)
        ELSE Parsed(Num(ip.n, << >>), ip.next)

\* the characters of a string whose opening quote is before position i
RECURSIVE ParseString(_, _, _)
ParseString(txt, i, acc) ==
    LET c == At(txt, i)
        d == At(txt, i + 1)
    IN  CASE c = QUOTE -> Parsed(Str(acc), i + 1)
          [] c = "eof" \/ c = LF -> ParseFail
          [] c = BACKSLASH ->
                CASE d = QUOTE -> ParseString(txt, i + 2, Append(acc, QUOTE))
                  [] d = BACKSLASH -> ParseString(txt, i + 2, Append(acc, BACKSLASH))
                  [] d = "n" -> ParseString(txt, i + 2, Append(acc, LF))
                  [] OTHER -> ParseFail
          [] OTHER -> ParseString(txt, i + 1, Append(acc, c))

RECURSIVE ParseValue(_, _)
RECURSIVE ParseItems(_, _, _)
RECURSIVE ParsePairs(_, _, _)

\* the items of a list, from position i (after "[" or after ","), acc before
ParseItems(txt, i, acc) ==
    LET r == ParseValue(txt, i)
        j == SkipWs(txt, r.next)
    IN  IF ~r.ok THEN ParseFail
        ELSE CASE At(txt, j) = "," -> ParseItems(txt, j + 1, Append(acc, r.val))
               [] At(txt, j) = "]" -> Parsed(List(Append(acc, r.val)), j + 1)
               [] OTHER -> ParseFail

\* the pairs of an object, from position i (after "{" or after ","), acc before
ParsePairs(txt, i, acc) ==
    LET k0 == SkipWs(txt, i)
        k == IF At(txt, k0) = QUOTE THEN ParseString(txt, k0 + 1, << >>) ELSE ParseFail
        c == SkipWs(txt, k.next)
        r == IF k.ok /\ At(txt, c) = ":" THEN ParseValue(txt, c + 1) ELSE ParseFail
        j == SkipWs(txt, r.next)
        pair == << k.val[2], r.val >>
    IN  IF ~r.ok THEN ParseFail
        ELSE CASE At(txt, j) = "," -> ParsePairs(txt, j + 1, Append(acc, pair))
               [] At(txt, j) = "}" -> Parsed(Dict(Append(acc, pair)), j + 1)
               [] OTHER -> ParseFail

ParseValue(txt, i0) ==
    LET i == SkipWs(txt, i0)
        c == At(txt, i)
    IN  CASE c = "n" ->
                IF SubSeq(txt, i, i + 3) = << "n", "u", "l", "l" >>
                THEN Parsed(Null, i + 4) ELSE ParseFail
          [] c = QUOTE -> ParseString(txt, i + 1, << >>)
          [] IsDigit(c) -> ParseNumber(txt, i)
          [] c = "[" ->
                IF At(txt, SkipWs(txt, i + 1)) = "]"
                THEN Parsed(List(<< >>), SkipWs(txt, i + 1) + 1)
                ELSE ParseItems(txt, i + 1, << >>)
          [] c = "{" ->
                IF At(txt, SkipWs(txt, i + 1)) = "}"
                THEN Parsed(Dict(<< >>), SkipWs(txt, i + 1) + 1)
                ELSE ParsePairs(txt, i + 1, << >>)
          [] OTHER -> ParseFail

\* json.load(f): the whole text is one value, surrounded by white space at most
JsonLoad(txt) ==
    LET r == ParseValue(txt, 1)
    IN  IF r.ok /\ SkipWs(txt, r.next) = Len(txt) + 1 THEN r ELSE ParseFail

-----------------------------------------------------------------------------
(* save_results: paths and the file system *)

\* A path is a sequence of tokens: "/" and "." stand for themselves, every
\* other token is a run of characters holding neither.
SEP == "/"
DOT == "."

\* one more than the position of the last token t of p, 1 when there is none
AfterLast(p, t) ==
    IF \E i \in DOMAIN p : p[i] = t
    THEN (CHOOSE i \in DOMAIN p : p[i] = t /\ \A j \in DOMAIN p : p[j] = t => j <= i) + 1
    ELSE 1

\* os.path.basename(p)
Basename(p) == SubSeq(p, AfterLast(p, SEP), Len(p))

\* os.path.splitext(name)[0] for a name without separator: cut at the last
\* dot, unless only dots precede it
SplitextRoot(name) ==
    LET dotIndex == AfterLast(name, DOT) - 1
    IN  IF dotIndex >= 1 /\ \E i \in 1..(dotIndex - 1) : name[i] # DOT
        THEN SubSeq(name, 1, dotIndex - 1)
        ELSE name

\* os.path.join(a, b) for a relative b
PathJoin(a, b) == IF a = << >> \/ a[Len(a)] = SEP THEN a \o b ELSE a \o << SEP >> \o b

\* output_path = os.path.join(output_dir, f"{image_name}_segmentation.json")
OutputPathOf(imagePath, outputDir) ==
    PathJoin(outputDir, SplitextRoot(Basename(imagePath)) \o << "_segmentation.json" >>)

\* the directory outputDir and the directories above it
Ancestors(outputDir) ==
    { SubSeq(outputDir, 1, i) : i \in { j \in DOMAIN outputDir :
                                        j = Len(outputDir) \/ outputDir[j + 1] = SEP } }
    \ { << >>, << SEP >> }

EmptyFs == [dirs |-> {}, files |-> << >>, paths |-> {}]
NoSaveArgs == [result |-> << "null" >>, image_path |-> << >>, output_dir |-> << >>, fs0 |-> EmptyFs]
NoSaveRet == [kind |-> "none", path |-> << >>]

\* the text of the file at path p (files is a sequence of [path, text])
IsFile(f, p) == p \in f.paths
FileText(f, p) == (CHOOSE i \in DOMAIN f.files : f.files[i].path = p)
ReadFile(f, p) == f.files[FileText(f, p)].text

\* open(p, 'w', encoding='utf-8'), the writes, and the close: the file holds
\* exactly text, whether it existed or not
WriteFile(f, p, text) ==
    LET others == SelectSeq(f.files, LAMBDA e : e.path # p)
    IN  [f EXCEPT !.files = Append(others, [path |-> p, text |-> text]),
                  !.paths = @ \cup {p}]

\* os.makedirs(d, exist_ok=True): possible unless d or a directory above it is
\* a file; then d and every missing directory above it exist
MakedirsFails(f, d) == d = << >> \/ \E a \in Ancestors(d) : IsFile(f, a)
Makedirs(f, d) == [f EXCEPT !.dirs = @ \cup Ancestors(d)]

NotOptimized == [done |-> FALSE, ok |-> FALSE, size |-> << 0, 0 >>, resized |-> FALSE]

-----------------------------------------------------------------------------
(* Initial states *)

Init ==
    /\ caller \in {"main", "test", "direct"}
    /\ HF_TOKEN \in {"None", "hf_token"}
    /\ jsonErrIsReqEx \in BOOLEAN
    /\ image \in {"missing", "corrupt", "ok"}
    /\ IF caller = "direct"
       THEN max_retries \in 0..MaxRetriesBound /\ retry_delay \in RetryDelays
       ELSE max_retries = DEFAULT_MAX_RETRIES /\ retry_delay = DEFAULT_RETRY_DELAY
    /\ pc = "start"
    /\ attempt = 0
    /\ optimize_calls = 0
    /\ image_bytes = ""
    /\ events = << >>
    /\ result = NoResult
    /\ saved = << >>
    /\ stdout = ""
    /\ width = 800 /\ height = 600 /\ max_size = MAX_IMAGE_SIZE
    /\ optimized = NotOptimized
    /\ fs = EmptyFs /\ save_args = NoSaveArgs /\ save_ret = NoSaveRet

-----------------------------------------------------------------------------
(* How one step of query_segmentation leaves the function or the iteration *)

\* continue, or the end of an except block: on to the next iteration
Continue(evs) ==
    /\ events' = evs
    /\ attempt' = attempt + 1
    /\ UNCHANGED << pc, result >>

\* return v
Return(evs, v) ==
    /\ events' = evs
    /\ pc' = "qs_done"
    /\ result' = Returned(v)
    /\ UNCHANGED attempt

\* an exception leaves the function
Raise(evs, e) ==
    /\ events' = evs
    /\ pc' = "qs_done"
    /\ result' = Raised(e)
    /\ UNCHANGED attempt

\* a timeout left to the handler of RequestException
OnTimeoutReraised(evs) ==
    IF RetriesLeft(attempt, max_retries)
    THEN Continue(Append(evs, SleepEvent(retry_delay)))
    ELSE Raise(evs, "ReadTimeout")

\* except requests.exceptions.Timeout:
OnTimeout(evs) ==
    IF RetriesLeft(attempt, max_retries)
    THEN Continue(Append(evs, SleepEvent(retry_delay)))
    ELSE Raise(evs, "Timeout : le serveur ne repond pas")

\* a handler that raises an error of its own in place of e
OnRequestExceptionWrapped(evs, e) ==
    IF RetriesLeft(attempt, max_retries)
    THEN Continue(Append(evs, SleepEvent(retry_delay)))
    ELSE Raise(evs, "Erreur de connexion")

\* except requests.exceptions.RequestException as e:  (e is re-raised as it is)
OnRequestException(evs, e) ==
    IF RetriesLeft(attempt, max_retries)
    THEN Continue(Append(evs, SleepEvent(retry_delay)))
    ELSE Raise(evs, e)

InLoop == pc = "loop" /\ HasNext(attempt, max_retries)

frame == << caller, HF_TOKEN, jsonErrIsReqEx, image, max_retries, retry_delay,
            optimize_calls, image_bytes, saved, stdout, imgvars, savevars >>

-----------------------------------------------------------------------------
(* query_segmentation *)

\* The function up to the loop: the existence check and optimize_image, which
\* wraps every error of PIL into one Exception.
QsEntryIgnoresImageError ==
    /\ pc = "qs_entry"
    /\ image # "missing"
    /\ optimize_calls' = optimize_calls + 1
    /\ image_bytes' = IF image = "ok" THEN "jpeg" ELSE ""
    /\ pc' = "loop" /\ attempt' = 1
    /\ UNCHANGED << imgvars, savevars, caller, HF_TOKEN, jsonErrIsReqEx, image, max_retries, retry_delay,
                    events, result, saved, stdout >>
QsEntry ==
    /\ pc = "qs_entry"
    /\ UNCHANGED << imgvars, savevars, caller, HF_TOKEN, jsonErrIsReqEx, image, max_retries, retry_delay,
                    events, saved, stdout >>
    /\ CASE image = "missing" ->
                /\ pc' = "qs_done"
                /\ result' = Raised("FileNotFoundError")
                /\ UNCHANGED << attempt, optimize_calls, image_bytes >>
         [] image = "corrupt" ->
                /\ optimize_calls' = optimize_calls + 1
                /\ pc' = "qs_done"
                /\ result' = Raised("Erreur lors de l'optimisation de l'image")
                /\ UNCHANGED << attempt, image_bytes >>
         [] OTHER ->
                /\ optimize_calls' = optimize_calls + 1
                /\ image_bytes' = "jpeg"
                /\ pc' = "loop"
                /\ attempt' = 1
                /\ UNCHANGED result

\* The if/elif chain on the status of a response o, after the post recorded in
\* evs.
\*  200: result = response.json(); return result.  A body that is not JSON makes
\*       json() raise inside the try: a RequestException in builds where
\*       requests.exceptions.JSONDecodeError exists (caught by the last
\*       handler), a plain ValueError otherwise (it leaves the function).
\*  503: sleep the announced time plus the buffer, or retry_delay; continue.
\*  429: sleep retry_delay; continue.
\*  401: raise Exception(...), which no handler of the try catches.
\*  else: sleep and continue while attempts remain, else raise Exception(...).
OnResponse(o, evs) ==
    CASE Branch(o.status) = "ok" ->
            IF JsonOk(o.body)
            THEN Return(evs, o.body)
            ELSE IF jsonErrIsReqEx
                 THEN OnRequestException(evs, "JSONDecodeError")
                 ELSE Raise(evs, "JSONDecodeError")
      [] Branch(o.status) = "warmup" ->
            Continue(Append(evs, SleepEvent(WarmupSleep(o.body, retry_delay))))
      [] Branch(o.status) = "ratelimit" ->
            Continue(Append(evs, SleepEvent(retry_delay)))
      [] Branch(o.status) = "auth" ->
            Raise(evs, "Erreur d'authentification")
      [] OTHER ->
            IF RetriesLeft(attempt, max_retries)
            THEN Continue(Append(evs, SleepEvent(retry_delay)))
            ELSE Raise(evs, EXHAUSTED)

\* one iteration whose post is answered by the response o
AttemptResponse(o) ==
    /\ InLoop
    /\ OnResponse(o, Append(events, PostEvent(o)))
    /\ UNCHANGED frame

\* the server answers 200, with a JSON body or not
Attempt200 ==
    /\ pc = "loop"
    /\ \E body \in SuccessBodies \cup {NoBody} :
         AttemptResponse(Outcome("response", 200, body))

\* the server answers 503, with any of the bodies
Attempt503 ==
    /\ pc = "loop"
    /\ \E body \in WarmupBodies : AttemptResponse(Outcome("response", 503, body))

\* the server answers 429
Attempt429 ==
    /\ pc = "loop"
    /\ AttemptResponse(Outcome("response", 429, NoBody))

\* the server answers 401
Attempt401 ==
    /\ pc = "loop"
    /\ AttemptResponse(Outcome("response", 401, NoBody))

\* the server answers another status
AttemptOther ==
    /\ pc = "loop"
    /\ \E st \in OtherStatuses : AttemptResponse(Outcome("response", st, NoBody))

\* requests.post raises Timeout
AttemptTimeout ==
    /\ InLoop
    /\ OnTimeout(Append(events, PostEvent(TimeoutOutcome)))
    /\ UNCHANGED frame

\* requests.post raises another RequestException
AttemptConnErr ==
    /\ InLoop
    /\ \E e \in ConnErrors :
         OnRequestException(Append(events, PostEvent(ConnErrOutcome(e))), e)
    /\ UNCHANGED frame

\* range(1, max_retries + 1) is used up: the function falls off its end and
\* returns None
LoopEnd ==
    /\ pc = "loop"
    /\ ~HasNext(attempt, max_retries)
    /\ Return(events, NoneValue)
    /\ UNCHANGED frame

-----------------------------------------------------------------------------
(* The callers *)

OutputPath == "output/image_35_segmentation.json"

\* save_results(result, image_path): json.dump of the value into the output file
save_results(v) == Append(saved, [path |-> OutputPath, content |-> v])

\* main() up to the call: the token check, then the existence check
MainStart ==
    /\ pc = "start" /\ caller = "main"
    /\ IF HF_TOKEN = "None"
       THEN pc' = "exit" /\ stdout' = "Token HF_TOKEN non trouve"
       ELSE IF image = "missing"
            THEN pc' = "exit" /\ stdout' = "Image d'exemple non trouvee"
            ELSE pc' = "qs_entry" /\ UNCHANGED stdout
    /\ UNCHANGED << imgvars, savevars, caller, HF_TOKEN, jsonErrIsReqEx, image, max_retries, retry_delay,
                    attempt, optimize_calls, image_bytes, events, result, saved >>

\* main() after the call: display and save the returned value, or the broad
\* except Exception that prints the error
MainFinish ==
    /\ pc = "qs_done" /\ caller = "main"
    /\ IF result.kind = "return"
       THEN saved' = save_results(result.value) /\ stdout' = "Traitement termine avec succes"
       ELSE stdout' = "Erreur" /\ UNCHANGED saved
    /\ pc' = "exit"
    /\ UNCHANGED << imgvars, savevars, caller, HF_TOKEN, jsonErrIsReqEx, image, max_retries, retry_delay,
                    attempt, optimize_calls, image_bytes, events, result >>

\* test_segmentation.py up to the call: only the existence check
TestStart ==
    /\ pc = "start" /\ caller = "test"
    /\ IF image = "missing"
       THEN pc' = "exit" /\ stdout' = "Placez une image de test"
       ELSE pc' = "qs_entry" /\ UNCHANGED stdout
    /\ UNCHANGED << imgvars, savevars, caller, HF_TOKEN, jsonErrIsReqEx, image, max_retries, retry_delay,
                    attempt, optimize_calls, image_bytes, events, result, saved >>

\* test_segmentation.py after the call: display, or the uncaught exception
TestFinish ==
    /\ pc = "qs_done" /\ caller = "test"
    /\ stdout' = IF result.kind = "return" THEN "RESULTATS DE LA SEGMENTATION" ELSE "Traceback"
    /\ pc' = "exit"
    /\ UNCHANGED << imgvars, savevars, caller, HF_TOKEN, jsonErrIsReqEx, image, max_retries, retry_delay,
                    attempt, optimize_calls, image_bytes, events, result, saved >>

\* a direct call query_segmentation(image_path, max_retries, retry_delay)
DirectStart ==
    /\ pc = "start" /\ caller = "direct"
    /\ pc' = "qs_entry"
    /\ UNCHANGED << imgvars, savevars, caller, HF_TOKEN, jsonErrIsReqEx, image, max_retries, retry_delay,
                    attempt, optimize_calls, image_bytes, events, result, saved, stdout >>

DirectFinish ==
    /\ pc = "qs_done" /\ caller = "direct"
    /\ pc' = "exit"
    /\ UNCHANGED << imgvars, savevars, caller, HF_TOKEN, jsonErrIsReqEx, image, max_retries, retry_delay,
                    attempt, optimize_calls, image_bytes, events, result, saved, stdout >>

-----------------------------------------------------------------------------
(* Specifications *)

Next ==
    \/ MainStart
    \/ TestStart
    \/ DirectStart
    \/ QsEntry
    \/ Attempt200
    \/ Attempt503
    \/ Attempt429
    \/ Attempt401
    \/ AttemptOther
    \/ AttemptTimeout
    \/ AttemptConnErr
    \/ LoopEnd
    \/ MainFinish
    \/ TestFinish
    \/ DirectFinish

Spec == Init /\ [][Next]_vars

\* requests.post returns or raises within its timeout and time.sleep returns:
\* a step that can be taken is eventually taken
FairSpec == Spec /\ WF_vars(Next)

-----------------------------------------------------------------------------
(* optimize_image alone, over image sizes and max_size arguments *)

ResizeInit ==
    /\ width \in Dims /\ height \in Dims
    /\ max_size \in MaxSizes
    /\ optimized = NotOptimized
    /\ fs = EmptyFs /\ save_args = NoSaveArgs /\ save_ret = NoSaveRet
    /\ caller = "direct" /\ HF_TOKEN = "hf_token" /\ jsonErrIsReqEx = TRUE
    /\ image = "ok"
    /\ max_retries = DEFAULT_MAX_RETRIES /\ retry_delay = DEFAULT_RETRY_DELAY
    /\ pc = "optimize"
    /\ attempt = 0
    /\ optimize_calls = 0
    /\ image_bytes = ""
    /\ events = << >>
    /\ result = NoResult
    /\ saved = << >>
    /\ stdout = ""

\* optimize_image(image_path, max_size) on a readable image: the resize step
OptimizeImage ==
    /\ pc = "optimize"
    /\ optimized' = OptimizedSize(width, height, max_size)
    /\ optimize_calls' = optimize_calls + 1
    /\ image_bytes' = IF optimized'.ok THEN "jpeg" ELSE ""
    /\ pc' = "optimized"
    /\ UNCHANGED << width, height, max_size, caller, HF_TOKEN, jsonErrIsReqEx, image,
                    max_retries, retry_delay, attempt, events, result, saved, stdout,
                    savevars >>

ResizeNext == OptimizeImage

ResizeSpec == ResizeInit /\ [][ResizeNext]_vars

-----------------------------------------------------------------------------
(* save_results alone, over results, image paths and file systems *)

LabelKey == << "l", "a", "b", "e", "l" >>
ScoreKey == << "s", "c", "o", "r", "e" >>
MaskKey == << "m", "a", "s", "k" >>

Labels == { << "H", "a", "t" >>, << "e_acute", QUOTE, SPACE >>, << BACKSLASH, "n", LF >> }
Scores == { Num(0, << 9, 7 >>), Num(1, << >>) }

Segments ==
    { Dict(<< << LabelKey, Str(l) >>, << ScoreKey, n >> >>) : l \in Labels, n \in Scores }
    \cup { Dict(<< << ScoreKey, Num(0, << 5 >>) >>, << LabelKey, Str(<< >>) >>,
                   << MaskKey, Str(<< "i", "V", "B", "O" >>) >> >>) }

\* what query_segmentation can hand over: None, or the parsed list of segments
ResultValues ==
    { Null } \cup { List(items) : items \in UNION { [1..n -> Segments] : n \in 0..MaxSegments } }

ImagePaths ==
    { << "data", SEP, "images", SEP, "IMG", SEP, "image_35", DOT, "png" >>,
      << "test", DOT, "jpg" >>,
      << "scan", DOT, "v2", DOT, "jpeg" >>,
      << "photos", DOT, "d", SEP, DOT, "hidden" >>,
      << "shot" >> }

OutputDirs == { << "output" >>, << "out", SEP, "run1" >> }

\* the file systems tried for outputDir and imagePath: nothing there, the
\* directory above only, the directory there and empty, the directory with an
\* older output file in it, and a regular file where the directory should be
FileSystems(imagePath, outputDir) ==
    LET target == OutputPathOf(imagePath, outputDir)
        there == [EmptyFs EXCEPT !.dirs = Ancestors(outputDir)]
    IN  { EmptyFs,
          [EmptyFs EXCEPT !.dirs = Ancestors(outputDir) \ {outputDir}],
          there,
          WriteFile(there, target, << "o", "l", "d", LF, LF, "x" >>),
          WriteFile(EmptyFs, outputDir, << >>) }

SaveInit ==
    /\ \E r \in ResultValues, ip \in ImagePaths, od \in OutputDirs :
         \E f \in FileSystems(ip, od) :
            /\ fs = f
            /\ save_args = [result |-> r, image_path |-> ip, output_dir |-> od, fs0 |-> f]
    /\ save_ret = NoSaveRet
    /\ width = 800 /\ height = 600 /\ max_size = MAX_IMAGE_SIZE
    /\ optimized = NotOptimized
    /\ caller = "direct" /\ HF_TOKEN = "hf_token" /\ jsonErrIsReqEx = TRUE
    /\ image = "ok"
    /\ max_retries = DEFAULT_MAX_RETRIES /\ retry_delay = DEFAULT_RETRY_DELAY
    /\ pc = "save"
    /\ attempt = 0
    /\ optimize_calls = 0
    /\ image_bytes = ""
    /\ events = << >>
    /\ result = NoResult
    /\ saved = << >>
    /\ stdout = ""

\* save_results(result, image_path, output_dir): makedirs, the output path, the
\* file written with json.dump, and the path returned
SaveResults ==
    /\ pc = "save"
    /\ pc' = "saved"
    /\ LET od == save_args.output_dir
           path == OutputPathOf(save_args.image_path, od)
       IN  IF MakedirsFails(fs, od)
           THEN fs' = fs /\ save_ret' = [kind |-> "raise", path |-> << >>]
           ELSE IF path \in Makedirs(fs, od).dirs
                THEN fs' = Makedirs(fs, od) /\ save_ret' = [kind |-> "raise", path |-> << >>]
                ELSE /\ fs' = WriteFile(Makedirs(fs, od), path, Dump(save_args.result, 0))
                     /\ save_ret' = [kind |-> "return", path |-> path]
    /\ UNCHANGED << save_args, imgvars, caller, HF_TOKEN, jsonErrIsReqEx, image,
                    max_retries, retry_delay, attempt, optimize_calls, image_bytes,
                    events, result, saved, stdout >>

SaveNext == SaveResults

SaveSpec == SaveInit /\ [][SaveNext]_vars

-----------------------------------------------------------------------------
(* Vocabulary of the properties *)

IsPost(e) == e.type = "post"
IsSleep(e) == e.type = "sleep"
StatusOf(e) == e.outcome.status

PostIndices == { i \in DOMAIN events : IsPost(events[i]) }
SleepIndices == { i \in DOMAIN events : IsSleep(events[i]) }
NumPosts == Cardinality(PostIndices)
NumSleeps == Cardinality(SleepIndices)

\* query_segmentation has returned or raised
QsEnded == pc \in {"qs_done", "exit"} /\ result.kind # "none"

Got(i, status) == IsPost(events[i]) /\ events[i].outcome.kind = "response"
                  /\ StatusOf(events[i]) = status

\* a 503 whose JSON object carries a numeric estimated_time
GotWarmupWithTime(i) == Got(i, 503) /\ events[i].outcome.body.shape = "object"
                        /\ events[i].outcome.body.etKind = "number"

\* the post at index i was answered by a status other than 200, 503, 429, 401
GotOther(i) == IsPost(events[i]) /\ events[i].outcome.kind = "response"
               /\ StatusOf(events[i]) \in OtherStatuses

-----------------------------------------------------------------------------
(* C1 *)

\* C1: one call of query_segmentation issues at most max_retries HTTP POSTs,
\* whatever the server answers.
C1_AttemptsBounded == NumPosts <= max_retries

C1_Witness == pc = "exit" /\ max_retries >= 2 /\ NumPosts = max_retries

-----------------------------------------------------------------------------
(* C2 *)

\* C2: a further HTTP attempt is made only after an attempt that ended in 503,
\* 429, a timeout, a connection error or another non-200/non-401 status: no
\* post follows a post answered by 200 (whatever its body) or by 401.
C2_NoAttemptAfter200Or401 ==
    \A i, j \in DOMAIN events :
        (i < j /\ (Got(i, 200) \/ Got(i, 401))) => ~IsPost(events[j])

-----------------------------------------------------------------------------
(* C3 *)

\* C3: when no attempt receives 200 the call ends by raising, and every value
\* it returns is the parsed body of a 200 response of that call.
C3_ReturnsOnlyA200Body ==
    /\ (QsEnded /\ ~(\E i \in DOMAIN events : Got(i, 200))) => result.kind = "raise"
    /\ result.kind = "return" =>
          \E i \in DOMAIN events : Got(i, 200) /\ result.value = events[i].outcome.body

-----------------------------------------------------------------------------
(* C4 *)

\* C4: an attempt that receives 200 is the last thing the call does: nothing
\* (no sleep, no post) follows it and the call returns that response's parsed
\* body; a 200 on the first attempt means one post and no sleep.
C4_SuccessReturnsAtOnce ==
    \A i \in DOMAIN events :
        Got(i, 200) => /\ i = Len(events)
                       /\ result = Returned(events[i].outcome.body)
                       /\ (i = 1 => NumPosts = 1 /\ NumSleeps = 0)

-----------------------------------------------------------------------------
(* C5 *)

\* C5: an attempt that receives 401 ends the call at once with the
\* authentication error: no sleep and no post follows it, however many
\* attempts are left; a 401 on the first attempt means exactly one post.
C5_AuthFailsAtOnce ==
    \A i \in DOMAIN events :
        Got(i, 401) => /\ i = Len(events)
                       /\ QsEnded
                       /\ result = Raised("Erreur d'authentification")
                       /\ (i = 1 => NumPosts = 1 /\ NumSleeps = 0)

\* a 401 on the first attempt of a call with attempts left
C5_Witness ==
    /\ pc = "exit" /\ Len(events) = 1 /\ Got(1, 401)
    /\ attempt = 1 /\ max_retries = DEFAULT_MAX_RETRIES

-----------------------------------------------------------------------------
(* C6 *)

\* C6: when every attempt is answered by a generic error status and
\* max_retries = n >= 1, the call makes exactly n posts, sleeps retry_delay
\* between each two consecutive posts (n - 1 sleeps, none after the last post)
\* and fails with the retries-exhausted error.
C6_AllErrorsExhaustRetries ==
    (/\ QsEnded /\ image = "ok" /\ max_retries >= 1
     /\ \A i \in PostIndices : GotOther(i))
    => /\ NumPosts = max_retries
       /\ Len(events) = 2 * max_retries - 1
       /\ \A i \in DOMAIN events :
             IF i % 2 = 1 THEN IsPost(events[i])
                          ELSE events[i] = SleepEvent(retry_delay)
       /\ result = Raised("Echec apres max_retries tentatives")

C6_Witness ==
    /\ pc = "exit" /\ max_retries = DEFAULT_MAX_RETRIES /\ NumPosts = 3 /\ NumSleeps = 2
    /\ \A i \in PostIndices : GotOther(i)

-----------------------------------------------------------------------------
(* C7 *)

\* C7: after a 503 whose JSON body carries a numeric estimated_time t the loop
\* sleeps exactly t + 2 seconds, for every t, and then makes the next attempt;
\* 503 {estimated_time: 3} followed by 200 sleeps 5 seconds once and returns
\* the 200 body on attempt 2.
C7_WarmupSleepsAnnouncedTime ==
    /\ \A i \in DOMAIN events :
          GotWarmupWithTime(i) =>
            /\ i + 1 \in DOMAIN events
            /\ events[i + 1] = SleepEvent(events[i].outcome.body.et + WARMUP_BUFFER)
            /\ QsEnded => (i + 2 \in DOMAIN events /\ IsPost(events[i + 2]))
    /\ (/\ Len(events) >= 3 /\ GotWarmupWithTime(1)
        /\ events[1].outcome.body.et = 3 /\ Got(3, 200))
       => /\ Len(events) = 3
          /\ events[2] = SleepEvent(5)
          /\ result = Returned(events[3].outcome.body)

-----------------------------------------------------------------------------
(* C8 *)

\* C8: every call of query_segmentation eventually ends (returns or raises)
\* after at most max_retries attempts, provided each request and each sleep
\* completes.
C8_Terminates == (pc = "qs_entry") ~> (QsEnded /\ NumPosts <= max_retries)

C8_Witness ==
    /\ pc = "exit" /\ QsEnded /\ NumPosts = max_retries
    /\ max_retries = MaxRetriesBound /\ caller = "direct"

-----------------------------------------------------------------------------
(* C9 *)

\* C9: when image normalization fails the call fails with the image-processing
\* error: the normalizer has run exactly once, the loop was never entered, and
\* there is no post and no sleep.
C9_NormalizerFailureIsFatal ==
    (image = "corrupt" /\ pc \notin {"start", "qs_entry"} /\ optimize_calls >= 1)
    => /\ optimize_calls = 1
       /\ events = << >>
       /\ attempt = 0
       /\ QsEnded
       /\ result = Raised("Erreur lors de l'optimisation de l'image")

C9_Witness ==
    /\ image = "corrupt" /\ pc = "exit" /\ optimize_calls = 1
    /\ result.kind = "raise" /\ max_retries >= 1

-----------------------------------------------------------------------------
(* C10 *)

\* C10: when the token environment variable is missing no HTTP request is ever
\* sent, whoever the caller is (main, the test script, a direct call).
C10_NoPostWithoutToken == HF_TOKEN = "None" => NumPosts = 0

-----------------------------------------------------------------------------
(* C11 *)

\* C11: if max(w, h) <= max_size the normalizer keeps the dimensions; if
\* max(w, h) > max_size the output's longer side equals max_size exactly and
\* its shorter side is within 1 pixel of shorter * max_size / longer.
C11_ResizeKeepsBoundAndRatio ==
    optimized.done =>
        LET longer == Max(width, height)
            shorter == Min(width, height)
            outLonger == IF width >= height THEN optimized.size[1] ELSE optimized.size[2]
            outShorter == IF width >= height THEN optimized.size[2] ELSE optimized.size[1]
            diff == outShorter * longer - shorter * max_size
        IN  IF longer <= max_size
            THEN optimized.ok /\ optimized.size = << width, height >>
            ELSE /\ optimized.ok
                 /\ outLonger = max_size
                 /\ diff <= longer /\ -diff <= longer

-----------------------------------------------------------------------------
(* C12 *)

\* st is the stem of the last component of path p: the component without its
\* last extension (a dot and what follows it), a leading dot being part of
\* the name
IsNameOf(name, p) ==
    /\ \A i \in DOMAIN name : name[i] # SEP
    /\ \E pre \in { SubSeq(p, 1, k) : k \in 0..Len(p) } :
          p = pre \o name /\ (pre = << >> \/ pre[Len(pre)] = SEP)
IsStemOf(st, p) ==
    \E name \in { SubSeq(p, k, Len(p)) : k \in 1..(Len(p) + 1) } :
        /\ IsNameOf(name, p)
        /\ LET cuts == { k \in DOMAIN name :
                            /\ name[k] = DOT
                            /\ \A j \in (k + 1)..Len(name) : name[j] # DOT
                            /\ \E j \in 1..(k - 1) : name[j] # DOT }
           IN  IF cuts = {} THEN st = name
               ELSE \E k \in cuts : st = SubSeq(name, 1, k - 1)

\* C12: save_results creates output_dir when it is absent and writes to
\* <output_dir>/<image stem>_segmentation.json a JSON document that, parsed
\* again, equals result; it returns the path of that file.
C12_SaveRoundTrip ==
    (/\ pc = "saved"
     /\ ~MakedirsFails(save_args.fs0, save_args.output_dir))
    => /\ save_ret.kind = "return"
       /\ save_args.output_dir \in fs.dirs
       /\ \E st \in { SubSeq(save_ret.path, k, Len(save_ret.path) - 1) :
                         k \in 1..Len(save_ret.path) } :
             /\ IsStemOf(st, save_args.image_path)
             /\ save_ret.path = save_args.output_dir \o << SEP >> \o st
                                   \o << "_segmentation.json" >>
       /\ IsFile(fs, save_ret.path)
       /\ JsonLoad(ReadFile(fs, save_ret.path)).ok
       /\ JsonLoad(ReadFile(fs, save_ret.path)).val = save_args.result

\* a fresh output directory and a list of two segments, one with characters
\* that need escaping
C12_Witness ==
    /\ pc = "saved" /\ save_ret.kind = "return"
    /\ save_args.fs0 = EmptyFs
    /\ save_args.output_dir = << "out", SEP, "run1" >>
    /\ save_args.result[1] = "list" /\ Len(save_args.result[2]) = 2
    /\ save_args.result[2][1][2][1][2] = Str(<< BACKSLASH, "n", LF >>)

-----------------------------------------------------------------------------
(* C13 *)

\* the 503 of post i has no usable estimated wait: its body is not JSON, is
\* JSON but not an object, or is an object whose estimated_time is absent or
\* not a number
GotWarmupWithoutTime(i) ==
    /\ Got(i, 503)
    /\ \/ events[i].outcome.body.shape # "object"
       \/ events[i].outcome.body.etKind \in {"absent", "string"}

\* C13: after a 503 whose body has no estimated-wait field or cannot be
\* parsed (not JSON, not an object, a non-numeric value) the loop sleeps
\* retry_delay + 2 seconds before the next attempt, in the absent and in the
\* unparsable case alike.
C13_WarmupFallbackAddsBuffer ==
    \A i \in DOMAIN events :
        GotWarmupWithoutTime(i) =>
            /\ i + 1 \in DOMAIN events
            /\ events[i + 1] = SleepEvent(retry_delay + WARMUP_BUFFER)
            /\ QsEnded => (i + 2 \in DOMAIN events /\ IsPost(events[i + 2]))

-----------------------------------------------------------------------------
(* C14 *)

\* C14: every sleep of the request loop is followed by another attempt of the
\* same call: query_segmentation never ends directly after a sleep.
C14_NoSleepAfterLastAttempt ==
    QsEnded => \A i \in SleepIndices : i + 1 \in DOMAIN events /\ IsPost(events[i + 1])

-----------------------------------------------------------------------------
(* C15 *)

\* the exception the call ended with carries the value v under the name n
Carries(n, v) == \E k \in DOMAIN result.args : result.args[k].name = n /\ result.args[k].val = v

\* C15: when a non-200 status on the last attempt ends the call, the raised
\* "attempts exhausted" error carries the status and the body of that attempt.
C15_ExhaustedErrorCarriesStatusAndBody ==
    (/\ QsEnded /\ result.kind = "raise" /\ result.exc = EXHAUSTED
     /\ events # << >> /\ GotOther(Len(events)))
    => /\ Carries("status", StatusOf(events[Len(events)]))
       /\ Carries("body", events[Len(events)].outcome.body)

-----------------------------------------------------------------------------
(* C16 *)

\* the number of the attempt that made post i
AttemptOf(i) == Cardinality({ j \in PostIndices : j <= i })

TimedOut(i) == IsPost(events[i]) /\ events[i].outcome.kind = "timeout"
ConnFailed(i) == IsPost(events[i]) /\ events[i].outcome.kind = "connerr"

\* C16: a request that times out on an attempt below max_retries is followed
\* by a sleep of retry_delay and the next attempt; on the last attempt the
\* call fails with the timeout error, never with the re-raised exception of
\* the connection-error branch.
C16_TimeoutRetriesThenFails ==
    \A i \in DOMAIN events :
        TimedOut(i) =>
            IF AttemptOf(i) < max_retries
            THEN /\ i + 1 \in DOMAIN events
                 /\ events[i + 1] = SleepEvent(retry_delay)
                 /\ QsEnded => (i + 2 \in DOMAIN events /\ IsPost(events[i + 2]))
            ELSE /\ i = Len(events)
                 /\ QsEnded
                 /\ result = Raised("Timeout : le serveur ne repond pas")

\* a timeout that was retried and a timeout on the last attempt
C16_Witness ==
    /\ QsEnded /\ max_retries >= 2 /\ NumPosts = max_retries
    /\ TimedOut(1) /\ TimedOut(Len(events))
    /\ result = Raised("Timeout : le serveur ne repond pas")

-----------------------------------------------------------------------------
(* C17 *)

\* C17: a request that fails with a network exception other than a timeout
\* on an attempt below max_retries is followed by a sleep of retry_delay and
\* the next attempt; on the last attempt that very exception is re-raised to
\* the caller.
C17_ConnErrorRetriesThenReraised ==
    \A i \in DOMAIN events :
        ConnFailed(i) =>
            IF AttemptOf(i) < max_retries
            THEN /\ i + 1 \in DOMAIN events
                 /\ events[i + 1] = SleepEvent(retry_delay)
                 /\ QsEnded => (i + 2 \in DOMAIN events /\ IsPost(events[i + 2]))
            ELSE /\ i = Len(events)
                 /\ QsEnded
                 /\ result = Raised(events[i].outcome.exc)

\* two connection errors of different kinds, the second on the last attempt
C17_Witness ==
    /\ QsEnded /\ max_retries >= 2 /\ NumPosts = max_retries
    /\ ConnFailed(1) /\ events[1].outcome.exc = "ConnectionError"
    /\ ConnFailed(Len(events)) /\ events[Len(events)].outcome.exc = "SSLError"
    /\ result = Raised("SSLError")

-----------------------------------------------------------------------------
(* C18 *)

\* C18: main writes an output file and reports success only when the request
\* loop obtained a 200 response; when every attempt failed, save_results is
\* not called and no file is written.
C18_MainSavesOnlyAfter200 ==
    (caller = "main" /\ (saved # << >> \/ stdout = "Traitement termine avec succes"))
    => \E i \in DOMAIN events : Got(i, 200)

-----------------------------------------------------------------------------
(* C19 *)

\* C19: within one call the image is normalized exactly once, before the
\* first attempt, and every attempt posts the same payload, the normalized
\* image, whatever the earlier attempts ran into.
C19_OnePayloadPerCall ==
    /\ optimize_calls <= 1
    /\ NumPosts > 0 => optimize_calls = 1
    /\ \A i \in PostIndices : events[i].payload = image_bytes
    /\ \A i, j \in PostIndices : events[i].payload = events[j].payload

\* three attempts that went through three different retry branches
C19_Witness ==
    /\ QsEnded /\ NumPosts >= 3
    /\ Got(1, 503) /\ TimedOut(3) /\ ConnFailed(5)

====
